---- MODULE Spec2Model ----
(***************************************************************************)
(* Model of src/TPO.py: the package reader (leer_datos), the all-pairs     *)
(* shortest paths (floyd_warshall) and the hub search                     *)
(* (calcular_mejor_camino with its recursive probar_combinaciones).       *)
(*                                                                         *)
(* A Python dict is a sequence of records [clave, valor] in insertion     *)
(* order with pairwise distinct keys: iteration follows that order.       *)
(* float('inf') is the number Inf, absorbing under Suma and larger than   *)
(* every finite sum the bounded inputs can produce.                       *)
(***************************************************************************)
EXTENDS Integers, Sequences, FiniteSets, TLC

VARIABLES
    pc,                   \* position of the program
    archivo,              \* parsed lines of the PAQUETES section, in file order
    num_paquetes,         \* datos['configuracion']['num_paquetes']
    num_nodos,            \* datos['configuracion']['num_nodos']
    aristas,              \* datos['aristas']: dict (u, v) -> peso
    hubs,                 \* datos['hubs']: dict id -> costo
    paquetes,             \* datos['paquetes']: dict id -> destino
    capacidad,            \* datos['configuracion']['capacidad_camion']
    deposito,             \* datos['configuracion']['deposito_id']
    matriz,               \* dist of floyd_warshall / matriz of the search
    k,                    \* outermost loop variable of floyd_warshall
    paquetes_por_destino, \* dict destino -> cantidad
    pila,                 \* call stack of probar_combinaciones
    hubs_activos,         \* the list shared by all the recursive calls
    mejor_costo, mejor_hubs, mejor_ruta, mejor_distancia,
    hoja,                 \* locals of the last evaluated leaf
    viajes                \* trips built by the last partition

vars == <<pc, archivo, num_paquetes, num_nodos, aristas, hubs, paquetes,
          capacidad, deposito, matriz, k, paquetes_por_destino, pila, hubs_activos,
          mejor_costo, mejor_hubs, mejor_ruta, mejor_distancia, hoja, viajes>>

\* what leer_datos hands to the rest of the program
datos == <<archivo, num_paquetes, num_nodos, aristas, hubs, paquetes, capacidad,
           deposito>>

---------------------------------------------------------------------------
(* Bounds of the model *)

MaxHubs == 2
MaxPaquetes == 2
MaxAristas == 3
MaxLineas == 3

Nodos == 0 .. 3
Pesos == {1, 4}
PesosFW == {0, 1, 2}
CostosHub == {0, 2}
Capacidades == {1, 2}
NodosHub == {1, 2, 3}
NodosDestino == {2, 3}
IdsPaquete == 1 .. 3
Depositos == {0}

---------------------------------------------------------------------------
(* float('inf') and float addition *)

Inf == 1000000

Suma(a, b) == IF a = Inf \/ b = Inf THEN Inf ELSE a + b

---------------------------------------------------------------------------
(* dict *)

Claves(dict) == {dict[n].clave : n \in 1 .. Len(dict)}

Posicion(dict, clave) == CHOOSE n \in 1 .. Len(dict) : dict[n].clave = clave

Valor(dict, clave) == dict[Posicion(dict, clave)].valor

\* dict[clave] = valor: an existing key keeps its place
Asignar(dict, clave, valor) ==
    IF clave \in Claves(dict)
    THEN [dict EXCEPT ![Posicion(dict, clave)].valor = valor]
    ELSE Append(dict, [clave |-> clave, valor |-> valor])

ListaClaves(dict) == [n \in 1 .. Len(dict) |-> dict[n].clave]

EsDict(dict) ==
    \A m, n \in 1 .. Len(dict) : dict[m].clave = dict[n].clave => m = n

RECURSIVE SeqHasta(_, _)
SeqHasta(S, n) ==
    IF n = 0 THEN {<<>>}
    ELSE LET menores == SeqHasta(S, n - 1)
         IN menores \cup {Append(s, x) : s \in {t \in menores : Len(t) = n - 1}, x \in S}

---------------------------------------------------------------------------
(* leer_datos: the sections the core reads *)

RECURSIVE LeerPaquetes(_, _, _, _)
LeerPaquetes(lineas, cantidad, n, dict) ==
    IF n > Len(lineas) \/ n > cantidad THEN dict
    ELSE LeerPaquetes(lineas, cantidad, n + 1,
                      Asignar(dict, lineas[n].id, lineas[n].destino))

RECURSIVE LeerAristas(_, _, _)
LeerAristas(lineas, n, dict) ==
    IF n > Len(lineas) THEN dict
    ELSE LET e == lineas[n]
             d1 == Asignar(dict, <<e.u, e.v>>, e.peso)
             d2 == IF <<e.v, e.u>> \in Claves(d1) THEN d1
                   ELSE Asignar(d1, <<e.v, e.u>>, e.peso)
         IN LeerAristas(lineas, n + 1, d2)

---------------------------------------------------------------------------
(* floyd_warshall *)

DistInicial(n) ==
    [p \in (0 .. n - 1) \X (0 .. n - 1) |-> IF p[1] = p[2] THEN 0 ELSE Inf]

RECURSIVE CargarAristas(_, _, _)
CargarAristas(dist, dict, n) ==
    IF n > Len(dict) THEN dist
    ELSE LET u == dict[n].clave[1]
             v == dict[n].clave[2]
             d1 == [dist EXCEPT ![<<u, v>>] = dict[n].valor]
             d2 == [d1 EXCEPT ![<<v, u>>] = dict[n].valor]
         IN CargarAristas(d2, dict, n + 1)

\* the two inner loops for one k, updating dist in place
RECURSIVE RelajarIJ(_, _, _, _)
RelajarIJ(dist, n, kk, idx) ==
    IF idx = n * n THEN dist
    ELSE LET i == idx \div n
             j == idx % n
             por_k == Suma(dist[<<i, kk>>], dist[<<kk, j>>])
         IN RelajarIJ(IF dist[<<i, j>>] > por_k THEN [dist EXCEPT ![<<i, j>>] = por_k]
                      ELSE dist,
                      n, kk, idx + 1)

\* the outermost loop. A round keeps the shape of dist, so the test on DOMAIN
\* is always true: it only has TLC finish a round before it starts the next.
RECURSIVE RelajarK(_, _, _)
RelajarK(dist, n, kk) ==
    IF kk = n THEN dist
    ELSE LET ronda == RelajarIJ(dist, n, kk, 0)
         IN IF DOMAIN ronda = DOMAIN dist THEN RelajarK(ronda, n, kk + 1) ELSE dist

floyd_warshall(dict, n) == RelajarK(CargarAristas(DistInicial(n), dict, 1), n, 0)

---------------------------------------------------------------------------
(* calcular_mejor_camino: grouping of the packages by destination *)

\* the grouping as it would be if the packages were scanned by ascending id
RECURSIVE AgruparPaquetesPorId(_, _, _)
AgruparPaquetesPorId(dict, n, por_destino) ==
    IF n > Len(dict) THEN por_destino
    ELSE LET id == CHOOSE c \in Claves(dict) :
                       Cardinality({x \in Claves(dict) : x < c}) = n - 1
             destino == Valor(dict, id)
             cant == IF destino \in Claves(por_destino)
                     THEN Valor(por_destino, destino) ELSE 0
         IN AgruparPaquetesPorId(dict, n + 1, Asignar(por_destino, destino, cant + 1))

RECURSIVE AgruparPaquetes(_, _, _)
AgruparPaquetes(dict, n, por_destino) ==
    IF n > Len(dict) THEN por_destino
    ELSE LET destino == dict[n].valor
             cant == IF destino \in Claves(por_destino)
                     THEN Valor(por_destino, destino) ELSE 0
         IN AgruparPaquetes(dict, n + 1, Asignar(por_destino, destino, cant + 1))

---------------------------------------------------------------------------
(* probar_combinaciones, base case: the trips *)

\* the partition as it would be without lines 226-227
CerrarUltimoOlvidado(vs, viaje_actual) == vs

\* lines 226-227, after the loop
CerrarUltimo(vs, viaje_actual) ==
    IF viaje_actual # <<>> THEN Append(vs, viaje_actual) ELSE vs

RECURSIVE AgruparDestinos(_, _, _, _, _, _)
AgruparDestinos(por_destino, cap, n, vs, viaje_actual, carga_actual) ==
    IF n > Len(por_destino)
    THEN CerrarUltimo(vs, viaje_actual)
    ELSE LET d == por_destino[n].clave
             cant == por_destino[n].valor
         IN IF carga_actual + cant > cap
            THEN AgruparDestinos(por_destino, cap, n + 1,
                                 Append(vs, viaje_actual), <<d>>, cant)
            ELSE AgruparDestinos(por_destino, cap, n + 1,
                                 vs, Append(viaje_actual, d), carga_actual + cant)

Particionar(por_destino, cap) ==
    AgruparDestinos(por_destino, cap, 1, <<>>, <<>>, 0)

---------------------------------------------------------------------------
(* probar_combinaciones, base case: the route of one hub subset *)

RECURSIVE Tramos(_, _, _, _)
Tramos(m, viaje, n, acumulada) ==
    IF n >= Len(viaje) THEN acumulada
    ELSE Tramos(m, viaje, n + 1, Suma(acumulada, m[<<viaje[n], viaje[n + 1]>>]))

\* the trip distance as it would be without line 245
DistanciaViajeSinRegreso(m, dep, punto_inicio, viaje) ==
    Tramos(m, viaje, 1, m[<<punto_inicio, viaje[1]>>])

DistanciaViaje(m, dep, punto_inicio, viaje) ==
    Suma(Tramos(m, viaje, 1, m[<<punto_inicio, viaje[1]>>]), m[<<viaje[Len(viaje)], dep>>])

\* line 247 with <= for <
MejoraViajeNoEstricta(distancia_viaje, menor_distancia_viaje) ==
    distancia_viaje <= menor_distancia_viaje

MejoraViaje(distancia_viaje, menor_distancia_viaje) ==
    distancia_viaje < menor_distancia_viaje

Candidatos(dep, activos) == <<dep>> \o activos

RECURSIVE ElegirInicio(_, _, _, _, _, _, _)
ElegirInicio(m, dep, candidatos, viaje, n, mejor_inicio, menor) ==
    IF n > Len(candidatos) THEN [inicio |-> mejor_inicio, distancia |-> menor]
    ELSE LET distancia_viaje == DistanciaViaje(m, dep, candidatos[n], viaje)
         IN IF MejoraViaje(distancia_viaje, menor)
            THEN ElegirInicio(m, dep, candidatos, viaje, n + 1,
                              candidatos[n], distancia_viaje)
            ELSE ElegirInicio(m, dep, candidatos, viaje, n + 1, mejor_inicio, menor)

RECURSIVE RecorrerViajes(_, _, _, _, _, _, _)
RecorrerViajes(m, dep, activos, vs, n, distancia_total, ruta_total) ==
    IF n > Len(vs)
    THEN [distancia_total |-> distancia_total, ruta_total |-> ruta_total]
    ELSE LET e == ElegirInicio(m, dep, Candidatos(dep, activos), vs[n], 1, dep, Inf)
         IN RecorrerViajes(m, dep, activos, vs, n + 1,
                           Suma(distancia_total, e.distancia),
                           ruta_total \o <<e.inicio>> \o vs[n] \o <<dep>>)

\* line 257 without the activation fees
CostoTotalSinActivacion(distancia_total, costo_activacion) == distancia_total

CostoTotal(distancia_total, costo_activacion) ==
    Suma(distancia_total, costo_activacion)

\* line 260 with <= for <
MejoraNoEstricta(costo_total, mejor_actual) == costo_total <= mejor_actual

Mejora(costo_total, mejor_actual) == costo_total < mejor_actual

\* line 197 starting from zero
MejorCostoInicialCero == Inf - Inf

MejorCostoInicial == Inf

\* viaje_ordenado[0] of an empty trip raises IndexError
HayViajeVacio(vs) == \E n \in 1 .. Len(vs) : vs[n] = <<>>

SinHoja ==
    [evaluada |-> FALSE, hubs_activos |-> <<>>, ruta_total |-> <<>>,
     distancia_total |-> 0, costo_total |-> 0]

Marco(indice, costo_activacion, paso) ==
    [indice |-> indice, costo_activacion |-> costo_activacion, paso |-> paso]

Cima == pila[Len(pila)]

SinCima == SubSeq(pila, 1, Len(pila) - 1)

hubs_lista == ListaClaves(hubs)

---------------------------------------------------------------------------
(* The search: calcular_mejor_camino from its entry to its return *)

ParesPosibles == <<<<0, 1>>, <<1, 2>>, <<2, 3>>, <<0, 3>>>>

Ausente == 0 - 1

LineasAristas(f) ==
    SelectSeq([n \in 1 .. Len(ParesPosibles) |->
                  [u |-> ParesPosibles[n][1], v |-> ParesPosibles[n][2], peso |-> f[n]]],
              LAMBDA e : e.peso # Ausente)

(* The weights each line of ARISTAS may carry, Ausente for a line the file
   does not have: the ring 0-1-2-3-0 with a short and a long side, which
   gives connected and disconnected graphs and equal-length detours. *)
PesosPorPar == <<{1, 4}, {1, Ausente}, {1, 4}, {4, Ausente}>>

Grafos ==
    {LeerAristas(LineasAristas(f), 1, <<>>) :
        f \in {g \in [1 .. Len(ParesPosibles) -> Pesos \cup {Ausente}] :
                  \A n \in DOMAIN g : g[n] \in PesosPorPar[n]}}

DictsHubs ==
    {h \in SeqHasta([clave : NodosHub, valor : CostosHub], MaxHubs) : EsDict(h)}

DictsPaquetes ==
    {[n \in 1 .. Len(ds) |-> [clave |-> n, valor |-> ds[n]]] :
        ds \in SeqHasta(NodosDestino, MaxPaquetes)}

Init ==
    /\ pc = "inicio"
    /\ num_nodos = Cardinality(Nodos)
    /\ aristas \in Grafos
    /\ matriz = floyd_warshall(aristas, num_nodos)
    /\ hubs \in DictsHubs
    /\ paquetes \in DictsPaquetes
    /\ capacidad \in Capacidades
    /\ deposito \in Depositos
    /\ archivo = <<>>
    /\ num_paquetes = Len(paquetes)
    /\ k = 0
    /\ paquetes_por_destino = <<>>
    /\ pila = <<>>
    /\ hubs_activos = <<>>
    /\ mejor_costo = 0
    /\ mejor_hubs = <<>>
    /\ mejor_ruta = <<>>
    /\ mejor_distancia = 0
    /\ hoja = SinHoja
    /\ viajes = <<>>

\* lines 185-200 and the first call of line 281
Preparar ==
    /\ pc = "inicio"
    /\ paquetes_por_destino' = AgruparPaquetes(paquetes, 1, <<>>)
    /\ mejor_costo' = MejorCostoInicial
    /\ mejor_hubs' = <<>>
    /\ mejor_ruta' = <<>>
    /\ mejor_distancia' = 0
    /\ hubs_activos' = <<>>
    /\ pila' = <<Marco(0, 0, "entrada")>>
    /\ pc' = "buscando"
    /\ UNCHANGED <<datos, matriz, k, hoja, viajes>>

\* lines 211-266: a leaf of the search
CasoBase ==
    /\ pc = "buscando"
    /\ pila # <<>>
    /\ Cima.paso = "entrada"
    /\ Cima.indice = Len(hubs_lista)
    /\ LET vs == Particionar(paquetes_por_destino, capacidad)
       IN /\ viajes' = vs
          /\ IF HayViajeVacio(vs)
             THEN /\ pc' = "IndexError"
                  /\ UNCHANGED <<pila, hoja, mejor_costo, mejor_hubs, mejor_ruta,
                                 mejor_distancia>>
             ELSE LET r == RecorrerViajes(matriz, deposito, hubs_activos, vs, 1,
                                          0, <<deposito>>)
                      costo_total == CostoTotal(r.distancia_total,
                                                Cima.costo_activacion)
                  IN /\ hoja' = [evaluada |-> TRUE,
                                 hubs_activos |-> hubs_activos,
                                 ruta_total |-> r.ruta_total,
                                 distancia_total |-> r.distancia_total,
                                 costo_total |-> costo_total]
                     /\ IF Mejora(costo_total, mejor_costo)
                        THEN /\ mejor_costo' = costo_total
                             /\ mejor_hubs' = hubs_activos
                             /\ mejor_ruta' = r.ruta_total
                             /\ mejor_distancia' = r.distancia_total
                        ELSE UNCHANGED <<mejor_costo, mejor_hubs, mejor_ruta,
                                         mejor_distancia>>
                     /\ pila' = SinCima
                     /\ pc' = pc
    /\ UNCHANGED <<datos, matriz, k, paquetes_por_destino, hubs_activos>>

\* line 272: the branch that leaves the hub out, explored first
NoActivar ==
    /\ pc = "buscando"
    /\ pila # <<>>
    /\ Cima.paso = "entrada"
    /\ Cima.indice < Len(hubs_lista)
    /\ pila' = Append([pila EXCEPT ![Len(pila)].paso = "tras_no_activar"],
                      Marco(Cima.indice + 1, Cima.costo_activacion, "entrada"))
    /\ UNCHANGED <<pc, datos, matriz, k, paquetes_por_destino, hubs_activos,
                   mejor_costo, mejor_hubs, mejor_ruta, mejor_distancia, hoja,
                   viajes>>

\* lines 275-277: the branch that activates the hub
Activar ==
    /\ pc = "buscando"
    /\ pila # <<>>
    /\ Cima.paso = "tras_no_activar"
    /\ LET hub_actual == hubs_lista[Cima.indice + 1]
       IN /\ hubs_activos' = Append(hubs_activos, hub_actual)
          /\ pila' = Append([pila EXCEPT ![Len(pila)].paso = "tras_activar"],
                            Marco(Cima.indice + 1,
                                  Cima.costo_activacion + Valor(hubs, hub_actual),
                                  "entrada"))
    /\ UNCHANGED <<pc, datos, matriz, k, paquetes_por_destino,
                   mejor_costo, mejor_hubs, mejor_ruta, mejor_distancia, hoja,
                   viajes>>

\* line 278: hubs_activos.pop() and the return of the call
VolverAtras ==
    /\ pc = "buscando"
    /\ pila # <<>>
    /\ Cima.paso = "tras_activar"
    /\ hubs_activos' = SubSeq(hubs_activos, 1, Len(hubs_activos) - 1)
    /\ pila' = SinCima
    /\ UNCHANGED <<pc, datos, matriz, k, paquetes_por_destino,
                   mejor_costo, mejor_hubs, mejor_ruta, mejor_distancia, hoja,
                   viajes>>

\* lines 283-284
Devolver ==
    /\ pc = "buscando"
    /\ pila = <<>>
    /\ pc' = "fin"
    /\ UNCHANGED <<datos, matriz, k, paquetes_por_destino, pila, hubs_activos,
                   mejor_costo, mejor_hubs, mejor_ruta, mejor_distancia, hoja,
                   viajes>>

Next == Preparar \/ CasoBase \/ NoActivar \/ Activar \/ VolverAtras \/ Devolver

Spec == Init /\ [][Next]_vars

---------------------------------------------------------------------------
(* floyd_warshall on its own, over every edge mapping of the bounds *)

TamanosFW == {2, 3}

DictsAristas(n) ==
    {d \in SeqHasta([clave : (0 .. n - 1) \X (0 .. n - 1), valor : PesosFW],
                    MaxAristas) : EsDict(d)}

mejor == <<mejor_costo, mejor_hubs, mejor_ruta, mejor_distancia>>

InitFW ==
    /\ pc = "fw_inicio"
    /\ num_nodos \in TamanosFW
    /\ aristas \in DictsAristas(num_nodos)
    /\ matriz = <<>>
    /\ k = 0
    /\ hubs = <<>>
    /\ paquetes = <<>>
    /\ capacidad = 1
    /\ deposito = 0
    /\ archivo = <<>>
    /\ num_paquetes = 0
    /\ paquetes_por_destino = <<>>
    /\ pila = <<>>
    /\ hubs_activos = <<>>
    /\ mejor_costo = 0
    /\ mejor_hubs = <<>>
    /\ mejor_ruta = <<>>
    /\ mejor_distancia = 0
    /\ hoja = SinHoja
    /\ viajes = <<>>

\* lines 159-164
FWInicializar ==
    /\ pc = "fw_inicio"
    /\ matriz' = CargarAristas(DistInicial(num_nodos), aristas, 1)
    /\ k' = 0
    /\ pc' = "fw_relajar"
    /\ UNCHANGED <<datos, paquetes_por_destino, pila, hubs_activos, mejor, hoja,
                   viajes>>

\* lines 167-171: one round of the outermost loop
FWRelajar ==
    /\ pc = "fw_relajar"
    /\ k < num_nodos
    /\ matriz' = RelajarIJ(matriz, num_nodos, k, 0)
    /\ k' = k + 1
    /\ UNCHANGED <<pc, datos, paquetes_por_destino, pila, hubs_activos, mejor,
                   hoja, viajes>>

\* line 173
FWDevolver ==
    /\ pc = "fw_relajar"
    /\ k = num_nodos
    /\ pc' = "fw_fin"
    /\ UNCHANGED <<datos, matriz, k, paquetes_por_destino, pila, hubs_activos,
                   mejor, hoja, viajes>>

NextFW == FWInicializar \/ FWRelajar \/ FWDevolver

SpecFW == InitFW /\ [][NextFW]_vars

---------------------------------------------------------------------------
(* From the PAQUETES section to the trips *)

NodosDestinoArchivo == {1, 2, 3}

LineasPaquetes ==
    SeqHasta([id : IdsPaquete, destino : NodosDestinoArchivo], MaxLineas)

InitPart ==
    /\ pc = "leer"
    /\ archivo \in LineasPaquetes
    /\ num_paquetes \in 0 .. MaxLineas
    /\ capacidad \in Capacidades
    /\ num_nodos = Cardinality(Nodos)
    /\ aristas = <<>>
    /\ matriz = <<>>
    /\ k = 0
    /\ hubs = <<>>
    /\ paquetes = <<>>
    /\ deposito = 0
    /\ paquetes_por_destino = <<>>
    /\ pila = <<>>
    /\ hubs_activos = <<>>
    /\ mejor_costo = 0
    /\ mejor_hubs = <<>>
    /\ mejor_ruta = <<>>
    /\ mejor_distancia = 0
    /\ hoja = SinHoja
    /\ viajes = <<>>

\* lines 128-131
LeerSeccionPaquetes ==
    /\ pc = "leer"
    /\ paquetes' = LeerPaquetes(archivo, num_paquetes, 1, <<>>)
    /\ pc' = "agrupar"
    /\ UNCHANGED <<archivo, num_paquetes, num_nodos, aristas, hubs, capacidad,
                   deposito, matriz, k, paquetes_por_destino, pila, hubs_activos,
                   mejor, hoja, viajes>>

\* lines 191-194
Agrupar ==
    /\ pc = "agrupar"
    /\ paquetes_por_destino' = AgruparPaquetes(paquetes, 1, <<>>)
    /\ pc' = "particionar"
    /\ UNCHANGED <<datos, matriz, k, pila, hubs_activos, mejor, hoja, viajes>>

\* lines 212-227
Partir ==
    /\ pc = "particionar"
    /\ viajes' = Particionar(paquetes_por_destino, capacidad)
    /\ pc' = "partido"
    /\ UNCHANGED <<datos, matriz, k, paquetes_por_destino, pila, hubs_activos,
                   mejor, hoja>>

NextPart == LeerSeccionPaquetes \/ Agrupar \/ Partir

SpecPart == InitPart /\ [][NextPart]_vars

---------------------------------------------------------------------------
(* What the claims speak of, stated without the loops of the code *)

MinDe(S) == CHOOSE x \in S : \A y \in S : x <= y

RECURSIVE SumaFn(_)
SumaFn(f) ==
    IF DOMAIN f = {} THEN 0
    ELSE LET x == CHOOSE y \in DOMAIN f : TRUE
         IN Suma(f[x], SumaFn([y \in DOMAIN f \ {x} |-> f[y]]))

Rango(seq) == {seq[n] : n \in 1 .. Len(seq)}

IndicesHubs == 1 .. Len(hubs)

\* the hubs of a set of indices, in the order of the hub list
RECURSIVE ListaDe(_, _)
ListaDe(S, n) ==
    IF n > Len(hubs) THEN <<>>
    ELSE (IF n \in S THEN <<hubs[n].clave>> ELSE <<>>) \o ListaDe(S, n + 1)

IndicesDe(lista) == {n \in IndicesHubs : hubs[n].clave \in Rango(lista)}

Activacion(S) == SumaFn([n \in S |-> hubs[n].valor])

\* dist[start][trip[0]] + the consecutive legs + dist[trip[last]][depot]
CostoDesde(inicio, viaje) ==
    Suma(Suma(matriz[<<inicio, viaje[1]>>],
              SumaFn([n \in 1 .. Len(viaje) - 1 |->
                         matriz[<<viaje[n], viaje[n + 1]>>]])),
         matriz[<<viaje[Len(viaje)], deposito>>])

CostoViaje(S, viaje) ==
    MinDe({CostoDesde(i, viaje) : i \in {deposito} \cup Rango(ListaDe(S, 1))})

\* D(S): every trip from its cheapest departure point
DistanciaDe(S) == SumaFn([t \in 1 .. Len(viajes) |-> CostoViaje(S, viajes[t])])

CostoDe(S) == Suma(DistanciaDe(S), Activacion(S))

CostoMinimo == MinDe({CostoDe(S) : S \in SUBSET IndicesHubs})

Optimos == {S \in SUBSET IndicesHubs : CostoDe(S) = CostoMinimo}

\* the earliest of [depot, active hubs in hub-list order] that attains the minimum
InicioDe(S, viaje) ==
    LET candidatos == <<deposito>> \o ListaDe(S, 1)
        primero == MinDe({n \in 1 .. Len(candidatos) :
                             CostoDesde(candidatos[n], viaje) = CostoViaje(S, viaje)})
    IN candidatos[primero]

RECURSIVE RutaDesde(_, _)
RutaDesde(S, t) ==
    IF t > Len(viajes) THEN <<>>
    ELSE <<InicioDe(S, viajes[t])>> \o viajes[t] \o <<deposito>> \o RutaDesde(S, t + 1)

RutaDe(S) == <<deposito>> \o RutaDesde(S, 1)

\* where trip t's departure point stands in a route
PosicionInicio(t) == 2 + SumaFn([s \in 1 .. t - 1 |-> Len(viajes[s]) + 2])

\* R comes before T in the search: at the first hub index where they differ,
\* R leaves the hub out
AntesEnBusqueda(R, T) ==
    R # T /\ MinDe((R \ T) \cup (T \ R)) \in T

\* R uses earlier-indexed hubs than T
IndicesAnteriores(R, T) ==
    R # T /\ MinDe((R \ T) \cup (T \ R)) \in R

RECURSIVE Aplanar(_)
Aplanar(vs) == IF vs = <<>> THEN <<>> ELSE Head(vs) \o Aplanar(Tail(vs))

Demanda(viaje) ==
    SumaFn([n \in 1 .. Len(viaje) |-> Valor(paquetes_por_destino, viaje[n])])

\* the weight the mapping leaves on the edge between u and v: the last entry
\* written for either direction
PesoArista(u, v) ==
    LET ns == {n \in 1 .. Len(aristas) : aristas[n].clave \in {<<u, v>>, <<v, u>>}}
    IN IF ns = {} THEN Inf ELSE aristas[CHOOSE n \in ns : \A o \in ns : o <= n].valor

\* the least weight of a path from i to j of at most pasos edges
RECURSIVE CaminoMinimo(_, _, _)
CaminoMinimo(i, j, pasos) ==
    IF pasos = 0 THEN (IF i = j THEN 0 ELSE Inf)
    ELSE MinDe({CaminoMinimo(i, j, pasos - 1)} \cup
               {Suma(CaminoMinimo(i, m, pasos - 1), PesoArista(m, j)) :
                   m \in 0 .. num_nodos - 1})

PrimeraPosicion(d) == MinDe({n \in 1 .. Len(paquetes) : paquetes[n].valor = d})

MenorId(d) == MinDe({paquetes[n].clave : n \in {o \in 1 .. Len(paquetes) : paquetes[o].valor = d}})

Agrupado == pc \in {"particionar", "partido"}

ConteoPorDestino ==
    /\ EsDict(paquetes_por_destino)
    /\ Claves(paquetes_por_destino) = Rango([n \in 1 .. Len(paquetes) |-> paquetes[n].valor])
    /\ \A a \in 1 .. Len(paquetes_por_destino) :
          paquetes_por_destino[a].valor =
              Cardinality({n \in 1 .. Len(paquetes) :
                              paquetes[n].valor = paquetes_por_destino[a].clave})

---------------------------------------------------------------------------
(* The claims *)

\* C1: when calcular_mejor_camino returns, total_cost is the minimum, over all
\* the subsets S of the hub list, of D(S) plus the activation costs of S, D(S)
\* being the sum over the trips of the cheapest departure from the depot or a
\* hub of S; no subset costs less.
C1_CostoMinimo == pc = "fin" => mejor_costo = CostoMinimo

C1_HubElegido ==
    /\ pc = "fin"
    /\ mejor_hubs # <<>>
    /\ mejor_costo < CostoDe({})
    /\ \E n \in IndicesHubs : hubs[n].valor > 0 /\ hubs[n].clave \in Rango(mejor_hubs)

C3_SinPaquetes ==
    (pc = "fin" /\ paquetes = <<>>) =>
        /\ mejor_distancia = 0
        /\ mejor_hubs = <<>>
        /\ mejor_costo = 0
        /\ mejor_ruta = <<deposito>>

C3_SinPaquetesConHubs ==
    /\ pc = "fin"
    /\ paquetes = <<>>
    /\ \E n \in IndicesHubs : hubs[n].valor = 0

\* C3 (as stated): with no packages the solver returns distance 0, no active
\* hub, total cost 0 and the route [depot, depot].
C3_RutaDepositoDeposito ==
    (pc = "fin" /\ paquetes = <<>>) =>
        /\ mejor_distancia = 0
        /\ mejor_hubs = <<>>
        /\ mejor_costo = 0
        /\ mejor_ruta = <<deposito, deposito>>

\* C4: the trips, concatenated in order, are the destinations in their order,
\* each exactly once, and every trip has summed demand <= capacity or exactly
\* one destination.
C4_Particion ==
    pc = "partido" =>
        /\ EsDict(paquetes_por_destino)
        /\ Aplanar(viajes) = ListaClaves(paquetes_por_destino)
        /\ \A t \in 1 .. Len(viajes) :
              Demanda(viajes[t]) <= capacidad \/ Len(viajes[t]) = 1

C4_VariosViajes ==
    /\ pc = "partido"
    /\ Len(viajes) >= 2
    /\ \E t \in 1 .. Len(viajes) : Len(viajes[t]) >= 2

\* C5: every trip the partition builds is non-empty, also when one
\* destination's demand exceeds the capacity, and the evaluation of the trips
\* completes without raising.
C5_ViajesNoVacios ==
    /\ \A t \in 1 .. Len(viajes) : viajes[t] # <<>>
    /\ pc # "IndexError"

\* C6: the matrix floyd_warshall returns has a zero diagonal, is symmetric,
\* satisfies the triangle inequality, and each entry is the least path weight
\* between its two nodes (infinite when there is no path).
C6_DistanciasMinimas ==
    pc = "fw_fin" =>
        \A i, j \in 0 .. num_nodos - 1 :
            /\ matriz[<<i, i>>] = 0
            /\ matriz[<<i, j>>] = matriz[<<j, i>>]
            /\ \A m \in 0 .. num_nodos - 1 :
                  matriz[<<i, j>>] <= Suma(matriz[<<i, m>>], matriz[<<m, j>>])
            /\ matriz[<<i, j>>] = CaminoMinimo(i, j, num_nodos)

\* C7: the result returned is the record of one evaluated hub subset: its
\* hubs, its cost (infinite when every subset is infeasible) and its route,
\* which starts with the depot and lists per trip the departure point, the
\* destinations and the depot.
C7_RegistroEvaluado ==
    pc = "fin" =>
        \E S \in SUBSET IndicesHubs :
            /\ mejor_hubs = ListaDe(S, 1)
            /\ mejor_costo = CostoDe(S)
            /\ mejor_ruta = RutaDe(S)

\* C8: at every leaf the active hubs are in hub-list order, each trip departs
\* from the earliest of [depot, active hubs] that attains the least trip cost,
\* and every trip returns to the depot.
C8_InicioMasTemprano ==
    hoja.evaluada =>
        LET S == IndicesDe(hoja.hubs_activos)
        IN /\ hoja.hubs_activos = ListaDe(S, 1)
           /\ hoja.ruta_total = RutaDe(S)
           /\ hoja.distancia_total = DistanciaDe(S)

C8_EmpateEntreInicios ==
    /\ hoja.evaluada
    /\ Len(hoja.hubs_activos) = 2
    /\ \E t \in 1 .. Len(viajes) :
          LET S == IndicesDe(hoja.hubs_activos)
              c == CostoViaje(S, viajes[t])
          IN /\ c < CostoDesde(deposito, viajes[t])
             /\ CostoDesde(hoja.hubs_activos[1], viajes[t]) = c
             /\ CostoDesde(hoja.hubs_activos[2], viajes[t]) = c

\* C9 (as amended): the destinations are grouped in the order of their first
\* occurrence when the packages are scanned in the order of the packages
\* mapping, and the demand of a destination is the count of its packages.
C9_OrdenDelMapeo ==
    Agrupado =>
        /\ ConteoPorDestino
        /\ \A a, b \in 1 .. Len(paquetes_por_destino) :
              a < b => PrimeraPosicion(paquetes_por_destino[a].clave)
                           < PrimeraPosicion(paquetes_por_destino[b].clave)

C9_IdsDesordenados ==
    /\ pc = "partido"
    /\ Len(paquetes_por_destino) >= 2
    /\ \E a \in 1 .. Len(paquetes_por_destino) : paquetes_por_destino[a].valor >= 2
    /\ \E a, b \in 1 .. Len(paquetes) : a < b /\ paquetes[a].clave > paquetes[b].clave

\* C9 (as stated): the destinations are grouped in the order of their first
\* occurrence when the packages are scanned by ascending package id, whatever
\* the order of the packages mapping.
C9_OrdenPorId ==
    Agrupado =>
        /\ ConteoPorDestino
        /\ \A a, b \in 1 .. Len(paquetes_por_destino) :
              a < b => MenorId(paquetes_por_destino[a].clave)
                           < MenorId(paquetes_por_destino[b].clave)

\* C10: every hub of the returned active set is the departure point of at
\* least one trip of the returned route, zero activation costs included.
C10_HubsUsados ==
    pc = "fin" =>
        \A h \in Rango(mejor_hubs) :
            \E t \in 1 .. Len(viajes) : mejor_ruta[PosicionInicio(t)] = h

C10_HubGratisFuera ==
    /\ pc = "fin"
    /\ mejor_hubs # <<>>
    /\ \E n \in IndicesHubs : hubs[n].valor = 0 /\ hubs[n].clave \notin Rango(mejor_hubs)

====
